---------------------------- MODULE Spec2Model ----------------------------
(***************************************************************************)
(* The Comfy-Cloud session store (src/src/stores/comfyCloudAuthStore.ts)   *)
(* and the balance polling of the account widget                           *)
(* (src/src/components/user/ComfyCloudUserButton.vue).                     *)
(*                                                                         *)
(* One step of the model is one task of the JavaScript event loop: the     *)
(* synchronous part of a call (up to its first await on the network), or   *)
(* the continuation that runs when a response arrives, together with every *)
(* microtask it queues (promise continuations inside the handler and the   *)
(* flush of Vue's watcher on `token`).  No other task can run in between,  *)
(* so the states of the model are exactly the states other tasks observe.  *)
(* `await fetch(..)` and the following `await response.json()` are taken   *)
(* as one arrival: the handler reads and writes no store state between     *)
(* them.                                                                   *)
(***************************************************************************)
EXTENDS Naturals, FiniteSets, Sequences, Bags

\* ------------------------------------------------------------------ bounds
\* Calls the environment makes on the store (login, register, logout,
\* refreshToken, fetchBalance, fetchUserInfo, timer ticks).
MaxCalls == 2

\* ------------------------------------------------------------------ values
Null == "null"
Undefined == "undefined"

\* JavaScript's !!v for the values of a string | null or object | null ref.
Truthy(v) == v # Null /\ v # Undefined /\ v # ""

\* Tokens the backend issues (non-empty strings), the profile it keeps for
\* each one, and what POST /auth/refresh answers for it: A1 rotates to A2 and
\* back, B1 is answered with the same token.
Tokens == {"A1", "A2", "B1"}
LoginTokens == {"A1", "B1"}
UserOf(t) == IF t \in {"A1", "A2"} THEN "alice" ELSE "bob"
TierOf(u) == IF u = "alice" THEN "pro" ELSE "basic"
BalanceOf(t) == IF UserOf(t) = "alice" THEN "balA" ELSE "balB"
RefreshedToken(t) == IF t = "A1" THEN "A2" ELSE IF t = "A2" THEN "A1" ELSE t

\* Outcomes of one HTTP exchange: a status code, or the rejection of fetch().
Statuses == {"200", "401", "404", "500", "neterr"}
ResponseOk(st) == st = "200"

\* The handle window.setInterval returns.
TimerId == "timer1"

VARIABLES
  token,                  \* useLocalStorage(STORAGE_KEY, null)
  currentUser,            \* ref<ComfyCloudUser | null>
  isInitialized,
  loading,
  balance,                \* ref<ComfyCloudBalance | null>
  lastBalanceUpdateTime,  \* ref<Date | null>: <<>> or <<time>>
  isFetchingBalance,
  inflight,               \* bag of requests sent and not yet answered
  now,                    \* the clock new Date() reads
  widget,                 \* the widget's lifecycle: created, mounted, unmounted
  balanceInterval,        \* the widget's timer handle
  timers,                 \* timers registered with window.setInterval
  calls,                  \* calls made so far
  last,                   \* the step just taken and what it gave its caller
  phase,                  \* the shape of the call sequence so far
  nInfo,                  \* /user/info requests issued so far
  startToken,             \* the persisted token the store started with
  loggedOut               \* logout has returned, no login or register answer since

vars == <<token, currentUser, isInitialized, loading, balance,
          lastBalanceUpdateTime, isFetchingBalance, inflight, now, widget,
          balanceInterval, timers, calls, last, phase, nInfo, startToken,
          loggedOut>>

\* lastBalanceUpdateTime is NoDate (null) or <<d>>, d a reading of the clock.
NoDate == <<>>

\* ------------------------------------------------------------- the store
\* The refs of the store and the environment a handler acts on, as a record.
Store ==
  [token |-> token, currentUser |-> currentUser, isInitialized |-> isInitialized,
   loading |-> loading, balance |-> balance,
   lastBalanceUpdateTime |-> lastBalanceUpdateTime,
   isFetchingBalance |-> isFetchingBalance, inflight |-> inflight, now |-> now,
   nInfo |-> nInfo]

\* A variant of IsAuth that forgets the user.
IsAuthTokenOnly(tok, usr) == Truthy(tok)

\* The computed isAuthenticated, of a token and a user.
IsAuth(tok, usr) == Truthy(usr) /\ Truthy(tok)

isAuthenticated == IsAuth(token, currentUser)
userTier == IF currentUser = Null THEN Undefined ELSE TierOf(currentUser)

Req(kind, tok, caller) == [kind |-> kind, tok |-> tok, caller |-> caller]

\* fetch(): the request leaves; its answer is a later task.
Send(s, r) ==
  [s EXCEPT !.inflight = @ (+) SetToBag({r}),
            !.nInfo = IF r.kind = "info" THEN @ + 1 ELSE @]

\* fetchWithAuth up to its await: the Authorization header carries the token
\* only when it is truthy.
FetchWithAuth(s, kind, caller) ==
  Send(s, Req(kind, IF Truthy(s.token) THEN s.token ELSE Null, caller))

\* fetchWithAuth on a 401 response.
Unauthorized(s) == [s EXCEPT !.token = Null, !.currentUser = Null]

\* fetchUserInfo up to its await.
FetchUserInfoStart(s, caller) == FetchWithAuth(s, "info", caller)

\* The callback of watch(token, ..).
WatchCallback(s, newToken) ==
  IF Truthy(newToken)
    THEN FetchUserInfoStart(s, "watch")
    ELSE [s EXCEPT !.currentUser = Null, !.balance = Null, !.isInitialized = TRUE]

\* Vue's scheduler: the watcher's job is queued when token is assigned a
\* different value and runs in a microtask of the same task; the callback is
\* called when the value differs from the one the watcher saw last.  `old` is
\* the token at the start of the task.  Every handler's statements after its
\* assignment to token commute with the callback, so it is applied last.
FlushWatch(old, s) == IF s.token # old THEN WatchCallback(s, s.token) ELSE s

\* A variant of FetchBalanceStart that guards on the token alone.
FetchBalanceStartTokenOnly(s, caller) ==
  IF ~Truthy(s.token)
    THEN [st |-> s, sent |-> FALSE]
    ELSE [st |-> FetchWithAuth([s EXCEPT !.isFetchingBalance = TRUE], "balance", caller),
          sent |-> TRUE]

\* fetchBalance up to its await: whether it sent a request, and the store.
FetchBalanceStart(s, caller) ==
  IF ~IsAuth(s.token, s.currentUser)
    THEN [st |-> s, sent |-> FALSE]
    ELSE [st |-> FetchWithAuth([s EXCEPT !.isFetchingBalance = TRUE], "balance", caller),
          sent |-> TRUE]

\* What a handler gives back: the store it leaves, the error it raised
\* ("none" when it returned) and the value it returned.
Result(s, raised, value) == [st |-> s, raised |-> raised, value |-> value]

\* A variant of FetchWithAuthDone that raises on a 401 without clearing.
FetchWithAuthDoneKeep(s, status) ==
  IF status = "neterr" THEN Result(s, "TransportError", Undefined)
  ELSE IF status = "401" THEN Result(s, "AuthError", Undefined)
  ELSE Result(s, "none", status)

\* fetchWithAuth after its await: fetch() rejected, a 401, or the response.
FetchWithAuthDone(s, status) ==
  IF status = "neterr" THEN Result(s, "TransportError", Undefined)
  ELSE IF status = "401" THEN Result(Unauthorized(s), "AuthError", Undefined)
  ELSE Result(s, "none", status)

\* fetchUserInfo after its await, for the request r.
FetchUserInfoDone(s, r, status) ==
  LET f == FetchWithAuthDone(s, status) IN
  IF f.raised # "none" THEN f
  ELSE IF ~ResponseOk(status) THEN Result(f.st, "AuthError", Undefined)
  ELSE Result([f.st EXCEPT !.currentUser = UserOf(r.tok)], "none", UserOf(r.tok))

\* A variant of WatchResolved whose catch block keeps the token.
WatchResolvedKeepToken(u) == [u.st EXCEPT !.isInitialized = TRUE]

\* The watcher's callback after its await of fetchUserInfo, whose result is u:
\* the try block's second statement, or the catch block.
WatchResolved(u) ==
  IF u.raised = "none"
    THEN [u.st EXCEPT !.isInitialized = TRUE]
    ELSE [u.st EXCEPT !.token = Null, !.isInitialized = TRUE]

\* A variant of FetchBalanceDone that takes a 404 as "no balance any more".
FetchBalanceDone404Clears(s, r, status) ==
  LET f == FetchWithAuthDone(s, status)
      Finally(res) == [res EXCEPT !.st.isFetchingBalance = FALSE]
  IN
  IF f.raised # "none" THEN Finally(f)
  ELSE IF ~ResponseOk(status)
    THEN IF status = "404"
           THEN Finally(Result([f.st EXCEPT !.balance = Null,
                                            !.lastBalanceUpdateTime = NoDate],
                               "none", Null))
           ELSE Finally(Result(f.st, "AuthError", Undefined))
  ELSE Finally(Result([f.st EXCEPT !.balance = BalanceOf(r.tok),
                                   !.lastBalanceUpdateTime = <<f.st.now>>,
                                   !.now = @ + 1],
                      "none", BalanceOf(r.tok)))

\* fetchBalance after its await, with its finally block.
FetchBalanceDone(s, r, status) ==
  LET f == FetchWithAuthDone(s, status)
      Finally(res) == [res EXCEPT !.st.isFetchingBalance = FALSE]
  IN
  IF f.raised # "none" THEN Finally(f)
  ELSE IF ~ResponseOk(status)
    THEN IF status = "404"
           THEN Finally(Result(f.st, "none", Null))
           ELSE Finally(Result(f.st, "AuthError", Undefined))
  ELSE Finally(Result([f.st EXCEPT !.balance = BalanceOf(r.tok),
                                   !.lastBalanceUpdateTime = <<f.st.now>>,
                                   !.now = @ + 1],
                      "none", BalanceOf(r.tok)))

\* A variant of LoginDone that starts the balance fetch before it stores the
\* user.
LoginDoneEarlyFetch(s, status, tok) ==
  LET Finally(res) == [res EXCEPT !.st.loading = FALSE] IN
  IF status = "neterr" THEN Finally(Result(s, "TransportError", Undefined))
  ELSE IF ~ResponseOk(status) THEN Finally(Result(s, "AuthError", Undefined))
  ELSE LET s1 == FetchBalanceStart([s EXCEPT !.token = tok], "login").st
           s2 == [s1 EXCEPT !.currentUser = UserOf(tok)]
       IN Finally(Result(s2, "none", tok))

\* A variant of LoginDone that drops the session when the login fails.
LoginDoneClearsOnFailure(s, status, tok) ==
  LET Finally(res) == [res EXCEPT !.st.loading = FALSE]
      Cleared == [s EXCEPT !.token = Null, !.currentUser = Null]
  IN
  IF status = "neterr" THEN Finally(Result(Cleared, "TransportError", Undefined))
  ELSE IF ~ResponseOk(status) THEN Finally(Result(Cleared, "AuthError", Undefined))
  ELSE LET s1 == [s EXCEPT !.token = tok, !.currentUser = UserOf(tok)]
           s2 == FetchBalanceStart(s1, "login").st
       IN Finally(Result(s2, "none", tok))

\* login after its await (a plain fetch), with its finally block; tok is the
\* token of a success response, whose user is the token's profile.
LoginDone(s, status, tok) ==
  LET Finally(res) == [res EXCEPT !.st.loading = FALSE] IN
  IF status = "neterr" THEN Finally(Result(s, "TransportError", Undefined))
  ELSE IF ~ResponseOk(status) THEN Finally(Result(s, "AuthError", Undefined))
  ELSE LET s1 == [s EXCEPT !.token = tok, !.currentUser = UserOf(tok)]
           s2 == FetchBalanceStart(s1, "login").st
       IN Finally(Result(s2, "none", tok))

\* A variant of RegisterDone that starts a balance fetch as login does.
RegisterDoneAsLogin(s, status, tok) ==
  LoginDone(s, status, tok)

\* register after its await (a plain fetch), with its finally block.
RegisterDone(s, status, tok) ==
  LET Finally(res) == [res EXCEPT !.st.loading = FALSE] IN
  IF status = "neterr" THEN Finally(Result(s, "TransportError", Undefined))
  ELSE IF ~ResponseOk(status) THEN Finally(Result(s, "AuthError", Undefined))
  ELSE Finally(Result([s EXCEPT !.token = tok, !.currentUser = UserOf(tok)],
                      "none", tok))

\* logout after the server call (or without one), with its finally block.
LogoutClear(s) ==
  [s EXCEPT !.token = Null, !.currentUser = Null, !.balance = Null,
            !.lastBalanceUpdateTime = NoDate, !.loading = FALSE]

\* A variant of LogoutDone without the .catch on the server call.
LogoutDonePropagates(s, status) ==
  LET f == FetchWithAuthDone(s, status) IN
  IF f.raised # "none"
    THEN Result([f.st EXCEPT !.loading = FALSE], f.raised, Undefined)
    ELSE Result(LogoutClear(f.st), "none", Undefined)

\* logout after its await: .catch(() => {}) swallows whatever fetchWithAuth raised.
LogoutDone(s, status) ==
  Result(LogoutClear(FetchWithAuthDone(s, status).st), "none", Undefined)

\* A variant of RefreshDone without the try/catch around the request.
RefreshDonePropagates(s, r, status) ==
  LET f == FetchWithAuthDone(s, status) IN
  IF f.raised # "none" THEN Result(f.st, f.raised, Undefined)
  ELSE IF ~ResponseOk(status) THEN Result(f.st, "none", Null)
  ELSE Result([f.st EXCEPT !.token = RefreshedToken(r.tok)], "none",
              RefreshedToken(r.tok))

\* refreshToken after its await.
RefreshDone(s, r, status) ==
  LET f == FetchWithAuthDone(s, status) IN
  IF f.raised # "none" THEN Result(f.st, "none", Null)
  ELSE IF ~ResponseOk(status) THEN Result(f.st, "none", Null)
  ELSE Result([f.st EXCEPT !.token = RefreshedToken(r.tok)], "none",
              RefreshedToken(r.tok))

\* wrapWithErrorHandlingAsync(action, toastErrorHandler): what the caller of
\* the wrapped action sees for what the action raised.
WrapWithErrorHandling(raised) == IF raised = "none" THEN "return" ELSE "toast"

\* What the caller of an unwrapped async function sees.
Unwrapped(raised) == IF raised = "none" THEN "return" ELSE "throw"

\* -------------------------------------------------------------- the steps
\* The record of a step: the operation, who called it, the response status it
\* handled ("none" for the synchronous part of a call), what the operation
\* raised, how that reached its caller (return, throw, toast: the wrapper's
\* notification, caught: the watcher's catch block, pending: awaiting the
\* network) and the value returned.
Step(ev, op, caller, status, raised, surfaced, value) ==
  [ev |-> ev, op |-> op, caller |-> caller, status |-> status,
   raised |-> raised, surfaced |-> surfaced, value |-> value]

\* Whether logout has returned and no answer to a login or register has
\* arrived since, after the step l.
LoggedOutAfter(l) ==
  IF l.op = "logout" /\ l.surfaced # "pending" THEN TRUE
  ELSE IF l.op \in {"login", "register"} /\ l.ev = "response" THEN FALSE
  ELSE loggedOut

\* The step taken is l.
Took(l) ==
  /\ last' = l
  /\ loggedOut' = LoggedOutAfter(l)

\* The store after a task that left it as s: the watcher's job is flushed.
Commit(s) ==
  LET f == FlushWatch(token, s) IN
  /\ token' = f.token
  /\ currentUser' = f.currentUser
  /\ isInitialized' = f.isInitialized
  /\ loading' = f.loading
  /\ balance' = f.balance
  /\ lastBalanceUpdateTime' = f.lastBalanceUpdateTime
  /\ isFetchingBalance' = f.isFetchingBalance
  /\ inflight' = f.inflight
  /\ now' = f.now
  /\ nInfo' = f.nInfo

\* The call sequence so far: none, only logins, logins and then one logout
\* (each call made after the logins before it had returned), or anything else.
LoginPending == \E r \in BagToSet(inflight) : r.kind = "login"
PhaseAfter(op) ==
  IF op = "login" /\ phase \in {"start", "logins"} /\ ~LoginPending THEN "logins"
  ELSE IF op = "logout" /\ phase = "logins" /\ ~LoginPending THEN "logout"
  ELSE "other"

Called(op) ==
  /\ calls < MaxCalls
  /\ calls' = calls + 1
  /\ phase' = PhaseAfter(op)
  /\ UNCHANGED startToken

Answered(r) ==
  /\ BagIn(r, inflight)
  /\ UNCHANGED <<calls, phase, startToken, widget, balanceInterval, timers>>

Received(s, r) == [s EXCEPT !.inflight = @ (-) SetToBag({r})]

\* The backend answers 200 on an authenticated endpoint only to a request
\* that carries a token; 404 is told apart from other failures by
\* fetchBalance alone.
CanAnswer(r, status) ==
  /\ status = "200" => (r.kind \in {"login", "register"} \/ r.tok # Null)
  /\ status = "404" => r.kind = "balance"

\* login(username, password) up to its await.
CallLogin ==
  /\ Called("login")
  /\ Commit(Send([Store EXCEPT !.loading = TRUE], Req("login", Null, "user")))
  /\ Took(Step("call", "login", "user", "none", "none", "pending", Undefined))
  /\ UNCHANGED <<widget, balanceInterval, timers>>

\* register(username, email, password) up to its await.
CallRegister ==
  /\ Called("register")
  /\ Commit(Send([Store EXCEPT !.loading = TRUE], Req("register", Null, "user")))
  /\ Took(Step("call", "register", "user", "none", "none", "pending", Undefined))
  /\ UNCHANGED <<widget, balanceInterval, timers>>

\* logout() up to its await; without a token it runs to its end.
CallLogout ==
  /\ Called("logout")
  /\ IF Truthy(token)
       THEN /\ Commit(FetchWithAuth([Store EXCEPT !.loading = TRUE], "logout", "user"))
            /\ Took(Step("call", "logout", "user", "none", "none", "pending", Undefined))
       ELSE /\ Commit(LogoutClear([Store EXCEPT !.loading = TRUE]))
            /\ Took(Step("call", "logout", "user", "none", "none",
                         WrapWithErrorHandling("none"), Undefined))
  /\ UNCHANGED <<widget, balanceInterval, timers>>

\* refreshToken() up to its await; without a token it returns null.
CallRefreshToken ==
  /\ Called("refreshToken")
  /\ IF Truthy(token)
       THEN /\ Commit(FetchWithAuth(Store, "refresh", "user"))
            /\ Took(Step("call", "refreshToken", "user", "none", "none", "pending", Undefined))
       ELSE /\ Commit(Store)
            /\ Took(Step("call", "refreshToken", "user", "none", "none", "return", Null))
  /\ UNCHANGED <<widget, balanceInterval, timers>>

\* fetchUserInfo() called from outside the store, up to its await.
CallFetchUserInfo ==
  /\ Called("fetchUserInfo")
  /\ Commit(FetchUserInfoStart(Store, "user"))
  /\ Took(Step("call", "fetchUserInfo", "user", "none", "none", "pending", Undefined))
  /\ UNCHANGED <<widget, balanceInterval, timers>>

\* fetchBalance() up to its await, for its caller (user, mount, poll).
FetchBalanceCalled(caller) ==
  LET b == FetchBalanceStart(Store, caller) IN
  /\ Commit(b.st)
  /\ Took(IF b.sent
            THEN Step("call", "fetchBalance", caller, "none", "none", "pending", Undefined)
            ELSE Step("call", "fetchBalance", caller, "none", "none", "return", Null))

CallFetchBalance ==
  /\ Called("fetchBalance")
  /\ FetchBalanceCalled("user")
  /\ UNCHANGED <<widget, balanceInterval, timers>>

\* getAuthHeader(): the Authorization value of the header it returns, or null.
getAuthHeader(s) ==
  IF ~Truthy(s.token) THEN Null ELSE "Bearer " \o s.token

\* A variant of getAuthToken that answers null while unauthenticated.
getAuthTokenAuthenticatedOnly(s) ==
  IF IsAuth(s.token, s.currentUser) THEN s.token ELSE Null

\* getAuthToken(): the token as it is.
getAuthToken(s) ==
  s.token

\* A call of getAuthHeader().
CallGetAuthHeader ==
  /\ Called("getAuthHeader")
  /\ Commit(Store)
  /\ Took(Step("call", "getAuthHeader", "user", "none", "none", "return",
               getAuthHeader(Store)))
  /\ UNCHANGED <<widget, balanceInterval, timers>>

\* A call of getAuthToken().
CallGetAuthToken ==
  /\ Called("getAuthToken")
  /\ Commit(Store)
  /\ Took(Step("call", "getAuthToken", "user", "none", "none", "return",
               getAuthToken(Store)))
  /\ UNCHANGED <<widget, balanceInterval, timers>>

\* The answer to POST /auth/login arrives.
RespondLogin ==
  \E r \in BagToSet(inflight), status \in Statuses, tok \in LoginTokens :
    /\ r.kind = "login" /\ CanAnswer(r, status)
    /\ Answered(r)
    /\ LET res == LoginDone(Received(Store, r), status, tok) IN
       /\ Commit(res.st)
       /\ Took(Step("response", "login", r.caller, status, res.raised,
                    WrapWithErrorHandling(res.raised), res.value))

\* The answer to POST /auth/register arrives.
RespondRegister ==
  \E r \in BagToSet(inflight), status \in Statuses, tok \in LoginTokens :
    /\ r.kind = "register" /\ CanAnswer(r, status)
    /\ Answered(r)
    /\ LET res == RegisterDone(Received(Store, r), status, tok) IN
       /\ Commit(res.st)
       /\ Took(Step("response", "register", r.caller, status, res.raised,
                    WrapWithErrorHandling(res.raised), res.value))

\* The answer to POST /auth/logout arrives.
RespondLogout ==
  \E r \in BagToSet(inflight), status \in Statuses :
    /\ r.kind = "logout" /\ CanAnswer(r, status)
    /\ Answered(r)
    /\ LET res == LogoutDone(Received(Store, r), status) IN
       /\ Commit(res.st)
       /\ Took(Step("response", "logout", r.caller, status, res.raised,
                    WrapWithErrorHandling(res.raised), res.value))

\* The answer to POST /auth/refresh arrives.
RespondRefresh ==
  \E r \in BagToSet(inflight), status \in Statuses :
    /\ r.kind = "refresh" /\ CanAnswer(r, status)
    /\ Answered(r)
    /\ LET res == RefreshDone(Received(Store, r), r, status) IN
       /\ Commit(res.st)
       /\ Took(Step("response", "refreshToken", r.caller, status, res.raised,
                    Unwrapped(res.raised), res.value))

\* The answer to GET /user/info arrives: fetchUserInfo ends, and then the
\* watcher's callback when it made the call.
RespondUserInfo ==
  \E r \in BagToSet(inflight), status \in Statuses :
    /\ r.kind = "info" /\ CanAnswer(r, status)
    /\ Answered(r)
    /\ LET u == FetchUserInfoDone(Received(Store, r), r, status) IN
       IF r.caller = "watch"
         THEN /\ Commit(WatchResolved(u))
              /\ Took(Step("response", "fetchUserInfo", r.caller, status, u.raised,
                           IF u.raised = "none" THEN "return" ELSE "caught", u.value))
         ELSE /\ Commit(u.st)
              /\ Took(Step("response", "fetchUserInfo", r.caller, status, u.raised,
                           Unwrapped(u.raised), u.value))

\* The answer to GET /user/balance arrives.
RespondBalance ==
  \E r \in BagToSet(inflight), status \in Statuses :
    /\ r.kind = "balance" /\ CanAnswer(r, status)
    /\ Answered(r)
    /\ LET res == FetchBalanceDone(Received(Store, r), r, status) IN
       /\ Commit(res.st)
       /\ Took(Step("response", "fetchBalance", r.caller, status, res.raised,
                    Unwrapped(res.raised), res.value))

\* ------------------------------------------------------------- the widget
\* onMounted: the first balance fetch, and the 30-second timer.
Mount ==
  /\ widget = "created"
  /\ widget' = "mounted"
  /\ FetchBalanceCalled("mount")
  /\ balanceInterval' = TimerId
  /\ timers' = timers \cup {TimerId}
  /\ phase' = "other"
  /\ UNCHANGED <<calls, startToken>>

\* The timer fires: the callback given to setInterval.
Tick ==
  /\ TimerId \in timers
  /\ Called("fetchBalance")
  /\ FetchBalanceCalled("poll")
  /\ UNCHANGED <<widget, balanceInterval, timers>>

\* A variant of Unmount that leaves the timer running.
UnmountNoClear ==
  /\ widget = "mounted"
  /\ widget' = "unmounted"
  /\ Commit(Store)
  /\ Took(Step("unmount", "none", "none", "none", "none", "return", Undefined))
  /\ UNCHANGED <<timers, balanceInterval, calls, phase, startToken>>

\* onUnmounted.
Unmount ==
  /\ widget = "mounted"
  /\ widget' = "unmounted"
  /\ timers' = IF balanceInterval # Null THEN timers \ {balanceInterval} ELSE timers
  /\ Commit(Store)
  /\ Took(Step("unmount", "none", "none", "none", "none", "return", Undefined))
  /\ UNCHANGED <<balanceInterval, calls, phase, startToken>>

\* ------------------------------------------------------ the specification
\* The store's refs as its setup function creates them, t the persisted token.
Created(t) ==
  [token |-> t, currentUser |-> Null, isInitialized |-> FALSE, loading |-> FALSE,
   balance |-> Null, lastBalanceUpdateTime |-> NoDate, isFetchingBalance |-> FALSE,
   inflight |-> EmptyBag, now |-> 1, nInfo |-> 0]

\* After defineStore's setup: watch(token, .., {immediate: true}) has called
\* its callback once with the persisted token.
Init ==
  \E t \in Tokens \cup {Null} :
    LET s == WatchCallback(Created(t), t) IN
    /\ startToken = t
    /\ token = s.token
    /\ currentUser = s.currentUser
    /\ isInitialized = s.isInitialized
    /\ loading = s.loading
    /\ balance = s.balance
    /\ lastBalanceUpdateTime = s.lastBalanceUpdateTime
    /\ isFetchingBalance = s.isFetchingBalance
    /\ inflight = s.inflight
    /\ now = s.now
    /\ nInfo = s.nInfo
    /\ widget = "created"
    /\ balanceInterval = Null
    /\ timers = {}
    /\ calls = 0
    /\ phase = "start"
    /\ loggedOut = FALSE
    /\ last = Step("init", "none", "none", "none", "none", "return", Undefined)

Next ==
  \/ CallLogin
  \/ CallRegister
  \/ CallLogout
  \/ CallRefreshToken
  \/ CallFetchUserInfo
  \/ CallFetchBalance
  \/ CallGetAuthHeader
  \/ CallGetAuthToken
  \/ RespondLogin
  \/ RespondRegister
  \/ RespondLogout
  \/ RespondRefresh
  \/ RespondUserInfo
  \/ RespondBalance

\* The store used through its actions alone.
Spec == Init /\ [][Next]_vars

\* The store with the account widget mounted on it.
NextWidget ==
  \/ Next
  \/ Mount
  \/ Tick
  \/ Unmount

SpecWidget == Init /\ [][NextWidget]_vars

\* ------------------------------------------------------------- the claims
Anonymous == token = Null /\ currentUser = Null

\* C1: isAuthenticated is true exactly when token and currentUser are both
\* non-null, in every reachable state.
C1_AuthenticatedIffTokenAndUser ==
  isAuthenticated <=> (token # Null /\ currentUser # Null)

\* C1's case: authenticated while requests are in flight.
C1_Witness == isAuthenticated /\ inflight # EmptyBag

\* C2: after login calls followed by logout(), each made when the logins
\* before it had returned, once logout has returned and every request has
\* been answered, token, currentUser and balance are null.
C2_LoginLogoutEndsCleared ==
  (phase = "logout" /\ inflight = EmptyBag)
    => (token = Null /\ currentUser = Null /\ balance = Null)

\* C3: the task that handles a 401 answer to fetchUserInfo, fetchBalance,
\* logout or refreshToken ends with token and currentUser null, and
\* fetchUserInfo and fetchBalance raise an AuthError to their caller.
C3_UnauthorizedEndsAnonymous ==
  (last.ev = "response" /\ last.status = "401"
     /\ last.op \in {"fetchUserInfo", "fetchBalance", "logout", "refreshToken"})
    => /\ Anonymous
       /\ last.op \in {"fetchUserInfo", "fetchBalance"}
            => (last.raised = "AuthError" /\ last.surfaced \in {"throw", "caught"})

\* C3's case: a 401 answered to a balance fetch.
C3_Witness ==
  last.ev = "response" /\ last.status = "401" /\ last.op = "fetchBalance"

\* C4: started with a persisted token and nothing else invoked, the store
\* issues exactly one /user/info request, isInitialized becomes true only by
\* its answer, and when the request fails token is null and isInitialized true.
C4_PersistedTokenResolvedOnce ==
  (startToken # Null /\ calls = 0 /\ widget = "created")
    => /\ nInfo = 1
       /\ ~isInitialized => BagIn(Req("info", startToken, "watch"), inflight)
       /\ isInitialized => (last.ev = "response" /\ inflight = EmptyBag)
       /\ last.ev = "response" => isInitialized
       /\ (last.ev = "response" /\ last.raised # "none") => token = Null

\* C4's case: the resolution of the persisted token has failed.
C4_Witness ==
  /\ startToken # Null /\ calls = 0 /\ widget = "created"
  /\ last.ev = "response" /\ last.raised # "none" /\ last.status # "401"

\* C5: when the watcher's resolution of a token fails, the task ends with
\* token, currentUser and balance null.
C5_FailedResolutionEndsAnonymous ==
  (last.ev = "response" /\ last.op = "fetchUserInfo" /\ last.caller = "watch"
     /\ last.raised # "none")
    => (Anonymous /\ balance = Null)

\* C6: when logout returns, whatever the backend answered, token, currentUser,
\* balance and lastBalanceUpdateTime are null, loading is false and nothing
\* was raised.
C6_LogoutClearsLocally ==
  (last.op = "logout" /\ last.surfaced # "pending")
    => /\ Anonymous
       /\ balance = Null
       /\ lastBalanceUpdateTime = NoDate
       /\ ~loading
       /\ last.raised = "none"
       /\ last.surfaced = "return"

\* C6's case: the backend logout call failed with a network error.
C6_Witness ==
  last.ev = "response" /\ last.op = "logout" /\ last.status = "neterr"

\* C7: the task that handles login's success response {token: T, user: U}
\* ends with token = T and currentUser = U, so authenticated with U's tier,
\* has sent one more /user/balance request, and has returned to login's
\* caller while that request is in flight.
C7_LoginSuccess ==
  [][(last'.ev = "response" /\ last'.op = "login" /\ last'.status = "200")
       => /\ token' = last'.value
          /\ currentUser' = UserOf(last'.value)
          /\ isAuthenticated'
          /\ userTier' = TierOf(UserOf(last'.value))
          /\ CopiesIn(Req("balance", last'.value, "login"), inflight')
               = CopiesIn(Req("balance", last'.value, "login"), inflight) + 1
          /\ isFetchingBalance'
          /\ last'.surfaced = "return"
          /\ ~loading']_vars

\* C7's case: a login has succeeded.
C7_Witness ==
  last.ev = "response" /\ last.op = "login" /\ last.status = "200"

\* C8: a login or register call, and the task that handles its failure,
\* change none of token, currentUser, balance and lastBalanceUpdateTime, and
\* the failure reaches the caller as a notification.
C8_FailedLoginKeepsSession ==
  [][(last'.op \in {"login", "register"}
        /\ (last'.ev = "call" \/ (last'.ev = "response" /\ last'.status # "200")))
       => /\ token' = token
          /\ currentUser' = currentUser
          /\ balance' = balance
          /\ lastBalanceUpdateTime' = lastBalanceUpdateTime
          /\ last'.ev = "response" => (last'.raised # "none" /\ last'.surfaced = "toast")]_vars

\* C8's case: a login has failed while a session was established.
C8_Witness ==
  /\ last.ev = "response" /\ last.op = "login" /\ last.status # "200"
  /\ isAuthenticated

\* C9: fetchBalance called while not authenticated returns null, sends
\* nothing and changes none of balance, lastBalanceUpdateTime and
\* isFetchingBalance.
C9_FetchBalanceUnauthenticated ==
  [][(last'.ev = "call" /\ last'.op = "fetchBalance" /\ ~isAuthenticated)
       => /\ last'.surfaced = "return"
          /\ last'.value = Null
          /\ inflight' = inflight
          /\ balance' = balance
          /\ lastBalanceUpdateTime' = lastBalanceUpdateTime
          /\ isFetchingBalance' = isFetchingBalance]_vars

\* C9's case: fetchBalance has returned null while the token was still being
\* resolved.
C9_Witness ==
  /\ last.ev = "call" /\ last.op = "fetchBalance" /\ last.surfaced = "return"
  /\ token # Null /\ currentUser = Null

\* C10: the task that handles a 404 answer to fetchBalance returns null,
\* raises nothing and changes neither balance nor lastBalanceUpdateTime.
C10_BalanceNotFound ==
  [][(last'.ev = "response" /\ last'.op = "fetchBalance" /\ last'.status = "404")
       => /\ last'.raised = "none"
          /\ last'.surfaced = "return"
          /\ last'.value = Null
          /\ balance' = balance
          /\ lastBalanceUpdateTime' = lastBalanceUpdateTime]_vars

\* C10's case: a 404 was answered while a balance was stored.
C10_Witness ==
  /\ last.ev = "response" /\ last.op = "fetchBalance" /\ last.status = "404"
  /\ balance # Null /\ lastBalanceUpdateTime # NoDate

\* C11: refreshToken raises nothing, whatever the outcome: it returns null
\* without a token and for every answer but a success, and on a success the
\* token is the new token, which it returns.
C11_RefreshNeverRaises ==
  (last.op = "refreshToken" /\ last.surfaced # "pending")
    => /\ last.raised = "none"
       /\ last.surfaced = "return"
       /\ (last.ev = "call" \/ last.status # "200") => last.value = Null
       /\ (last.ev = "response" /\ last.status = "200")
            => (last.value \in Tokens /\ token = last.value)

\* C11's case: the refresh request failed with a network error.
C11_Witness ==
  last.ev = "response" /\ last.op = "refreshToken" /\ last.status = "neterr"

\* The refs of the store and the requests in flight.
storeVars ==
  <<token, currentUser, isInitialized, loading, balance,
    lastBalanceUpdateTime, isFetchingBalance, inflight>>

Reads == {"getAuthHeader", "getAuthToken"}

NoBalanceRequestSent ==
  \A r \in BagToSet(inflight') :
    r.kind = "balance" => CopiesIn(r, inflight') <= CopiesIn(r, inflight)

\* C13: the task that handles register's success response {token: T, user: U}
\* ends as login's does, with token = T, currentUser = U and the call
\* returned, and with the resolution of T started when T is a new token; it
\* sends no /user/balance request and leaves balance and its time as they
\* were; the watcher's resolution of a token sends no /user/balance request
\* either.
C13_RegisterWithoutBalanceFetch ==
  [][/\ (last'.ev = "response" /\ last'.op = "register" /\ last'.status = "200")
          => /\ token' = last'.value
             /\ currentUser' = UserOf(last'.value)
             /\ isAuthenticated'
             /\ last'.surfaced = "return"
             /\ ~loading'
             /\ token # token'
                  => CopiesIn(Req("info", token', "watch"), inflight')
                       = CopiesIn(Req("info", token', "watch"), inflight) + 1
             /\ NoBalanceRequestSent
             /\ isFetchingBalance' = isFetchingBalance
             /\ balance' = balance
             /\ lastBalanceUpdateTime' = lastBalanceUpdateTime
     /\ (last'.op = "register" /\ last'.ev = "call") => NoBalanceRequestSent
     /\ (last'.ev = "response" /\ last'.op = "fetchUserInfo"
           /\ last'.caller = "watch") => NoBalanceRequestSent]_vars

\* C13's case: a register has succeeded over a session that has a balance.
C13_Witness ==
  /\ last.ev = "response" /\ last.op = "register" /\ last.status = "200"
  /\ balance # Null

\* C14: the task that handles a failed answer to fetchBalance, a 404 (C10's
\* "no balance record") aside: on a network error or a non-success status
\* other than 401 it leaves balance and lastBalanceUpdateTime as they were and
\* raises the error to fetchBalance's caller; on a 401 it ends with balance
\* null.
C14_FailedBalanceRefresh ==
  [][(last'.ev = "response" /\ last'.op = "fetchBalance")
       => /\ last'.status \in {"500", "neterr"}
               => /\ balance' = balance
                  /\ lastBalanceUpdateTime' = lastBalanceUpdateTime
                  /\ last'.raised # "none"
                  /\ last'.surfaced = "throw"
          /\ last'.status = "401" => balance' = Null]_vars

\* The step handled a 401 answer to a request sent through fetchWithAuth, or
\* the failure of the watcher's resolution.
AuthenticationFailed ==
  /\ last.ev = "response"
  /\ \/ last.status = "401" /\ last.op \notin {"login", "register"}
     \/ last.op = "fetchUserInfo" /\ last.caller = "watch" /\ last.raised # "none"

\* C15: after the task that handles a 401 answer or a failed resolution of
\* the token, watcher callback included, token, currentUser, balance and
\* lastBalanceUpdateTime are all null; and in no state is
\* lastBalanceUpdateTime non-null while balance is null.
C15_TornDownEntirely ==
  /\ AuthenticationFailed
       => /\ token = Null /\ currentUser = Null
          /\ balance = Null /\ lastBalanceUpdateTime = NoDate
  /\ balance = Null => lastBalanceUpdateTime = NoDate

\* A /user/balance request is in flight.
BalanceRequestInFlight == \E r \in BagToSet(inflight) : r.kind = "balance"

\* C16: isFetchingBalance is true in every state in which a /user/balance
\* request is in flight and false in every state in which none is, also
\* when the fetches of login, of the mount and of the poll overlap.
C16_FlagFollowsRequests ==
  isFetchingBalance <=> BalanceRequestInFlight

\* C17: the mount invokes fetchBalance once and starts the timer; a
\* fetchBalance invoked by the timer happens only while the widget is
\* mounted; once the widget is unmounted no timer is left, so none is
\* invoked by a timer from then on.
C17_PollingBoundToMount ==
  [][/\ (widget = "created" /\ widget' = "mounted")
          => /\ last'.ev = "call" /\ last'.op = "fetchBalance"
             /\ last'.caller = "mount"
             /\ timers' = {TimerId} /\ balanceInterval' = TimerId
     /\ (last'.ev = "call" /\ last'.caller = "poll")
          => /\ last'.op = "fetchBalance"
             /\ widget = "mounted" /\ widget' = "mounted"
             /\ calls' = calls + 1
     /\ widget' = "unmounted" => timers' = {}
     /\ widget = "unmounted" => widget' = "unmounted"]_vars

\* C17's case: the widget is unmounted and a request of a poll made while
\* it was mounted is still in flight.
C17_Witness ==
  /\ widget = "unmounted"
  /\ \E r \in BagToSet(inflight) : r.kind = "balance" /\ r.caller = "poll"

\* C18: in every state with no request in flight (the watcher's callback
\* then has nothing to wait for) in which the store is authenticated,
\* currentUser is the profile of the current token.
C18_UserMatchesToken ==
  (inflight = EmptyBag /\ isAuthenticated) => currentUser = UserOf(token)

\* C19: from the return of logout() until the answer to a login or a
\* register is received, token is null and the store is not authenticated.
C19_StaysLoggedOut ==
  loggedOut => (token = Null /\ ~isAuthenticated)

\* The step received the answer to a request that was sent with the token t.
AnsweredRequestOf(t) ==
  \E r \in BagToSet(inflight) :
    /\ CopiesIn(r, inflight') = CopiesIn(r, inflight) - 1
    /\ r.tok = t

\* C20: while only logins have been called, a token other than the
\* persisted one is the token T2 of a successful login; a step that clears
\* it handles the answer to a request that was sent with T2.
C20_ClearedByOwnRequestOnly ==
  [][(phase = "logins" /\ phase' = "logins"
        /\ token \notin {Null, startToken} /\ token' = Null)
       => AnsweredRequestOf(token)]_vars
====
